---- MODULE Spec2Model ----
(***************************************************************************)
(* RentalXpert (src/app.py): a Flask application over a SQLite store.      *)
(* The state is the store (one sequence of rows per table, in id order),   *)
(* the login session of every browser, the register requests that have    *)
(* run their email lookup and not yet committed, and the last response.    *)
(* Every route handler is one action.                                      *)
(***************************************************************************)
EXTENDS Integers, Sequences, FiniteSets, TLC

VARIABLES
    owner,                \* table owner: rows [id, username, email, password_hash]
    property,             \* table property: rows [id, owner_id, monthly_rent]
    tenant,               \* table tenant: rows [id, property_id, is_active]
    payment,              \* table payment: rows [id, property_id, tenant_id, payment_date]
    expense,              \* table expense: no route inserts into it
    maintenance_request,  \* table maintenance_request: no route inserts into it
    session,              \* per browser: the owner id flask-login keeps, NoUser if none
    inflight,             \* per browser: the register form between lookup and commit
    resp                  \* the last response sent

vars == <<owner, property, tenant, payment, expense, maintenance_request,
          session, inflight, resp>>

store == <<owner, property, tenant, payment, expense, maintenance_request>>

-----------------------------------------------------------------------------
(* Bounds of the model.                                                    *)

MaxProperties == 2
MaxTenants == 1
MaxPayments == 1
MaxStatsProperties == 2
MaxStatsTenants == 2
MaxDashPayments == 6

Clients == {"c1", "c2"}

-----------------------------------------------------------------------------
(* Form values.  Every form field is a string, or None when the field is   *)
(* absent from the submitted form (request.form.get returns None).         *)

None == "<None>"
NoUser == 0
Idle == [username |-> "-", email |-> "-", password |-> "-"]

\* request.form.get(key, default): the default stands in for an absent field.
\* The code's default is the number 0, which int() and float() map to 0 as
\* they map the string "0"; the model passes "0".
FormGet(form, key, default) == IF form[key] = None THEN default ELSE form[key]

Ok(v) == [exc |-> "", val |-> v]
Raise(e) == [exc |-> e, val |-> 0]

\* The strings int() accepts, with their values.
IntLiteral == ("0" :> 0) @@ ("1" :> 1) @@ ("2" :> 2) @@ ("3" :> 3)

\* The strings float() accepts; the value is kept in tenths.
FloatLiteral == ("0" :> 0) @@ ("1" :> 10) @@ ("2" :> 20) @@ ("3" :> 30) @@ ("1.5" :> 15)

\* The strings strptime(_, '%Y-%m-%d') accepts; the value is the day number.
DateLiteral == ("2024-01-01" :> 1) @@ ("2024-01-02" :> 2)

PyInt(v) ==
    IF v = None THEN Raise("TypeError")
    ELSE IF v \in DOMAIN IntLiteral THEN Ok(IntLiteral[v])
    ELSE Raise("ValueError")

\* Mutant of PyFloat: a string that is no number converts to 0.0.
PyFloat_BadIsZero(v) ==
    IF v = None THEN Raise("TypeError")
    ELSE IF v \in DOMAIN FloatLiteral THEN Ok(FloatLiteral[v])
    ELSE Ok(0)

PyFloat(v) ==
    IF v = None THEN Raise("TypeError")
    ELSE IF v \in DOMAIN FloatLiteral THEN Ok(FloatLiteral[v])
    ELSE Raise("ValueError")

Strptime(v) ==
    IF v = None THEN Raise("TypeError")
    ELSE IF v \in DOMAIN DateLiteral THEN Ok(DateLiteral[v])
    ELSE Raise("ValueError")

\* The first exception among the keyword arguments, evaluated left to right.
FirstExc(results) ==
    IF \E i \in DOMAIN results : results[i].exc # ""
    THEN results[CHOOSE i \in DOMAIN results :
                    /\ results[i].exc # ""
                    /\ \A j \in 1..(i - 1) : results[j].exc = ""].exc
    ELSE ""

-----------------------------------------------------------------------------
(* Password hashing (werkzeug.security).                                   *)

PasswordCode == ("pw1" :> 1) @@ ("pw2" :> 2)

Digest(salt, password) == salt * 31 + PasswordCode[password]

\* generate_password_hash(password): a salted digest; None has no encode().
GeneratePasswordHash(password, salt) ==
    IF password = None THEN Raise("AttributeError")
    ELSE Ok([salt |-> salt, digest |-> Digest(salt, password)])

\* Mutant of CheckPasswordHash: the digest is not compared.
CheckPasswordHash_AnyPassword(pwhash, password) ==
    IF password = None THEN Raise("AttributeError")
    ELSE Ok(TRUE)

\* check_password_hash(pwhash, password)
CheckPasswordHash(pwhash, password) ==
    IF password = None THEN Raise("AttributeError")
    ELSE Ok(Digest(pwhash.salt, password) = pwhash.digest)

-----------------------------------------------------------------------------
(* Responses.                                                              *)

NoStats == [total_properties |-> 0, active_tenants |-> 0, monthly_income |-> 0,
            recent_payments |-> {}, pending_maintenance |-> 0]

NoResp == [client |-> "-", route |-> "-", method |-> "-", status |-> 0,
           body |-> "-", flash |-> "", rows |-> <<>>, stats |-> NoStats]

\* render_template(template, ...)
Render(c, route, m, template, fl, rows, stats) ==
    [client |-> c, route |-> route, method |-> m, status |-> 200,
     body |-> template, flash |-> fl, rows |-> rows, stats |-> stats]

\* redirect(url_for(target)), after flash(fl) if any
Redirect(c, route, m, target, fl) ==
    [client |-> c, route |-> route, method |-> m, status |-> 302,
     body |-> target, flash |-> fl, rows |-> <<>>, stats |-> NoStats]

\* An exception no handler catches: Flask answers 500 and the request's
\* database session is discarded (nothing is committed).
Unhandled(c, route, m, exc) ==
    [client |-> c, route |-> route, method |-> m, status |-> 500,
     body |-> exc, flash |-> "", rows |-> <<>>, stats |-> NoStats]

-----------------------------------------------------------------------------
(* Queries.                                                                *)

\* load_user(user_id): Owner.query.get(int(user_id))
load_user(user_id) == SelectSeq(owner, LAMBDA o : o.id = user_id)

\* current_user.is_authenticated
IsAuthenticated(c) == session[c] # NoUser /\ load_user(session[c]) # <<>>

\* Owner.query.filter_by(email=email)
OwnerByEmail(email) == SelectSeq(owner, LAMBDA o : o.email = email)

\* Mutant of PropertiesOf: Property.query.all(), without the owner filter.
PropertiesOf_AllOwners(uid) == property

\* Property.query.filter_by(owner_id=current_user.id)
PropertiesOf(uid) == SelectSeq(property, LAMBDA p : p.owner_id = uid)

\* Mutant of JoinOwned: the join without the filter on Property.owner_id.
JoinOwned_NoOwnerFilter(table, uid) ==
    SelectSeq(table, LAMBDA r : \E i \in DOMAIN property :
                                    property[i].id = r.property_id)

\* db.session.query(T).join(Property).filter(Property.owner_id == uid):
\* the rows of T whose property_id is the id of a property row owned by uid.
JoinOwned(table, uid) ==
    SelectSeq(table, LAMBDA r : \E i \in DOMAIN property :
                                    /\ property[i].id = r.property_id
                                    /\ property[i].owner_id = uid)

\* The next value of an INTEGER PRIMARY KEY: no route deletes a row.
NextId(table) == Len(table) + 1

-----------------------------------------------------------------------------
(* flask-login.                                                            *)

\* login_required on an unauthenticated request: login_manager.unauthorized()
\* flashes its message and redirects to login_view; the view never runs.
Unauthorized(c, route, m) ==
    /\ resp' = Redirect(c, route, m, "login", "Please log in to access this page.")
    /\ UNCHANGED <<store, session, inflight>>

-----------------------------------------------------------------------------
(* register                                                                *)

\* Mutant of OwnerIntegrityError: email without unique=True.
OwnerIntegrityError_EmailNotUnique(form) ==
    \/ form.username = None
    \/ form.email = None
    \/ \E i \in DOMAIN owner : owner[i].username = form.username

\* The owner table's constraints at commit: username and email are
\* nullable=False and unique=True.
OwnerIntegrityError(form) ==
    \/ form.username = None
    \/ form.email = None
    \/ \E i \in DOMAIN owner : owner[i].username = form.username
    \/ \E i \in DOMAIN owner : owner[i].email = form.email

\* Lines 154-165: hash the password, add the Owner, commit, redirect to login.
RegisterInsert(c, form, salt) ==
    LET hashed == GeneratePasswordHash(form.password, salt) IN
    IF hashed.exc # ""
    THEN /\ resp' = Unhandled(c, "register", "POST", hashed.exc)
         /\ UNCHANGED owner
    ELSE IF OwnerIntegrityError(form)
    THEN /\ resp' = Unhandled(c, "register", "POST", "IntegrityError")
         /\ UNCHANGED owner
    ELSE /\ owner' = Append(owner, [id |-> NextId(owner),
                                    username |-> form.username,
                                    email |-> form.email,
                                    password_hash |-> hashed.val])
         /\ resp' = Redirect(c, "register", "POST", "login",
                             "Registration successful! Please login.")

\* Line 149: the lookup that guards the insert.
EmailRegistered(form) == OwnerByEmail(form.email) # <<>>

\* A register request handled with no other request in between.
register(c, m, form, salt) ==
    /\ inflight[c] = Idle
    /\ IF m = "GET"
       THEN /\ resp' = Render(c, "register", m, "register.html", "", <<>>, NoStats)
            /\ UNCHANGED owner
       ELSE IF EmailRegistered(form)
       THEN /\ resp' = Redirect(c, "register", m, "register", "Email already registered")
            /\ UNCHANGED owner
       ELSE RegisterInsert(c, form, salt)
    /\ UNCHANGED <<property, tenant, payment, expense, maintenance_request,
                   session, inflight>>

\* A register POST up to its lookup (lines 143-151): the server is threaded,
\* and another request may commit before this one does.
register_lookup(c, form) ==
    /\ inflight[c] = Idle
    /\ IF EmailRegistered(form)
       THEN /\ resp' = Redirect(c, "register", "POST", "register",
                                "Email already registered")
            /\ UNCHANGED inflight
       ELSE /\ inflight' = [inflight EXCEPT ![c] = form]
            /\ UNCHANGED resp
    /\ UNCHANGED <<store, session>>

\* The rest of that register POST (lines 154-165).
register_commit(c, salt) ==
    /\ inflight[c] # Idle
    /\ RegisterInsert(c, inflight[c], salt)
    /\ inflight' = [inflight EXCEPT ![c] = Idle]
    /\ UNCHANGED <<property, tenant, payment, expense, maintenance_request, session>>

-----------------------------------------------------------------------------
(* login, logout                                                           *)

\* Lines 175-177: the Owner logged in by this form, <<>> if none.  The hash
\* is checked only when the email matches an Owner.
LoginMatch(form) ==
    LET found == OwnerByEmail(form.email) IN
    IF found = <<>> THEN Ok(<<>>)
    ELSE LET chk == CheckPasswordHash(found[1].password_hash, form.password) IN
         IF chk.exc # "" THEN Raise(chk.exc)
         ELSE IF chk.val THEN Ok(<<found[1]>>) ELSE Ok(<<>>)

login(c, m, form) ==
    /\ inflight[c] = Idle
    /\ IF m = "GET"
       THEN /\ resp' = Render(c, "login", m, "login.html", "", <<>>, NoStats)
            /\ UNCHANGED session
       ELSE LET match == LoginMatch(form) IN
            IF match.exc # ""
            THEN /\ resp' = Unhandled(c, "login", m, match.exc)
                 /\ UNCHANGED session
            ELSE IF match.val # <<>>
            THEN /\ session' = [session EXCEPT ![c] = match.val[1].id]
                 /\ resp' = Redirect(c, "login", m, "dashboard", "Welcome back")
            ELSE /\ resp' = Render(c, "login", m, "login.html",
                                   "Invalid email or password", <<>>, NoStats)
                 /\ UNCHANGED session
    /\ UNCHANGED <<store, inflight>>

logout(c) ==
    /\ inflight[c] = Idle
    /\ IF ~IsAuthenticated(c) THEN Unauthorized(c, "logout", "GET")
       ELSE /\ session' = [session EXCEPT ![c] = NoUser]
            /\ resp' = Redirect(c, "logout", "GET", "index", "")
            /\ UNCHANGED <<store, inflight>>

-----------------------------------------------------------------------------
(* properties, add_property                                                *)

\* Mutant of properties: the route without login_required.
properties_NoLoginRequired(c) ==
    /\ inflight[c] = Idle
    /\ resp' = Render(c, "properties", "GET", "properties.html", "",
                      PropertiesOf(session[c]), NoStats)
    /\ UNCHANGED <<store, session, inflight>>

properties(c) ==
    /\ inflight[c] = Idle
    /\ IF ~IsAuthenticated(c) THEN Unauthorized(c, "properties", "GET")
       ELSE /\ resp' = Render(c, "properties", "GET", "properties.html", "",
                              PropertiesOf(session[c]), NoStats)
            /\ UNCHANGED <<store, session, inflight>>

\* Lines 235-246: parse the fields, add the Property, commit.
\* property.name is nullable=False.
PropertyInsert(c, form) ==
    LET bedrooms == PyInt(FormGet(form, "bedrooms", "0"))
        bathrooms == PyInt(FormGet(form, "bathrooms", "0"))
        area_sqft == PyFloat(FormGet(form, "area_sqft", "0"))
        monthly_rent == PyFloat(FormGet(form, "monthly_rent", "0"))
        exc == FirstExc(<<bedrooms, bathrooms, area_sqft, monthly_rent>>)
    IN
    IF exc # ""
    THEN /\ resp' = Unhandled(c, "add_property", "POST", exc)
         /\ UNCHANGED property
    ELSE IF form.name = None
    THEN /\ resp' = Unhandled(c, "add_property", "POST", "IntegrityError")
         /\ UNCHANGED property
    ELSE /\ property' = Append(property, [id |-> NextId(property),
                                          owner_id |-> session[c],
                                          monthly_rent |-> monthly_rent.val])
         /\ resp' = Redirect(c, "add_property", "POST", "properties",
                             "Property added successfully!")

add_property(c, m, form) ==
    /\ inflight[c] = Idle
    /\ IF ~IsAuthenticated(c) THEN Unauthorized(c, "add_property", m)
       ELSE /\ IF m = "GET"
               THEN /\ resp' = Render(c, "add_property", m, "add_property.html", "",
                                      <<>>, NoStats)
                    /\ UNCHANGED property
               ELSE PropertyInsert(c, form)
            /\ UNCHANGED <<owner, tenant, payment, expense, maintenance_request,
                           session, inflight>>

-----------------------------------------------------------------------------
(* tenants, add_tenant                                                     *)

tenants(c) ==
    /\ inflight[c] = Idle
    /\ IF ~IsAuthenticated(c) THEN Unauthorized(c, "tenants", "GET")
       ELSE /\ resp' = Render(c, "tenants", "GET", "tenants.html", "",
                              JoinOwned(tenant, session[c]), NoStats)
            /\ UNCHANGED <<store, session, inflight>>

\* Lines 264-275: parse the fields, add the Tenant, commit.  tenant.name and
\* tenant.phone are nullable=False; is_active defaults to True.  SQLite does
\* not enforce the foreign key on property_id (the application never turns
\* foreign_keys on).
TenantInsert(c, form) ==
    LET lease_start == Strptime(form.lease_start)
        lease_end == Strptime(form.lease_end)
        security_deposit == PyFloat(FormGet(form, "security_deposit", "0"))
        property_id == PyInt(form.property_id)
        exc == FirstExc(<<lease_start, lease_end, security_deposit, property_id>>)
    IN
    IF exc # ""
    THEN /\ resp' = Unhandled(c, "add_tenant", "POST", exc)
         /\ UNCHANGED tenant
    ELSE IF form.name = None \/ form.phone = None
    THEN /\ resp' = Unhandled(c, "add_tenant", "POST", "IntegrityError")
         /\ UNCHANGED tenant
    ELSE /\ tenant' = Append(tenant, [id |-> NextId(tenant),
                                      property_id |-> property_id.val,
                                      is_active |-> TRUE])
         /\ resp' = Redirect(c, "add_tenant", "POST", "tenants",
                             "Tenant added successfully!")

add_tenant(c, m, form) ==
    /\ inflight[c] = Idle
    /\ IF ~IsAuthenticated(c) THEN Unauthorized(c, "add_tenant", m)
       ELSE /\ IF m = "GET"
               THEN /\ resp' = Render(c, "add_tenant", m, "add_tenant.html", "",
                                      PropertiesOf(session[c]), NoStats)
                    /\ UNCHANGED tenant
               ELSE TenantInsert(c, form)
            /\ UNCHANGED <<owner, property, payment, expense, maintenance_request,
                           session, inflight>>

-----------------------------------------------------------------------------
(* payments, add_payment, expenses                                         *)

Range(seq) == { seq[i] : i \in DOMAIN seq }

\* query.order_by(column.desc()).all(): the rows in every order the ORDER BY
\* allows (rows with equal keys come in an order SQL leaves open).
RECURSIVE OrderByDesc(_, _)
OrderByDesc(rows, column) ==
    IF rows = {} THEN { <<>> }
    ELSE LET first == { r \in rows : \A q \in rows : q[column] <= r[column] }
         IN UNION { { <<r>> \o rest : rest \in OrderByDesc(rows \ {r}, column) } :
                    r \in first }

\* query.limit(n)
Limit(seq, n) == SubSeq(seq, 1, IF Len(seq) < n THEN Len(seq) ELSE n)

payments(c) ==
    /\ inflight[c] = Idle
    /\ IF ~IsAuthenticated(c) THEN Unauthorized(c, "payments", "GET")
       ELSE /\ \E rows \in OrderByDesc(Range(JoinOwned(payment, session[c])),
                                       "payment_date") :
                    resp' = Render(c, "payments", "GET", "payments.html", "",
                                   rows, NoStats)
            /\ UNCHANGED <<store, session, inflight>>

\* Lines 294-304: parse the fields, add the Payment, commit.  Neither
\* foreign key is enforced.
PaymentInsert(c, form) ==
    LET property_id == PyInt(form.property_id)
        tenant_id == PyInt(form.tenant_id)
        amount == PyFloat(form.amount)
        payment_date == Strptime(form.payment_date)
        exc == FirstExc(<<property_id, tenant_id, amount, payment_date>>)
    IN
    IF exc # ""
    THEN /\ resp' = Unhandled(c, "add_payment", "POST", exc)
         /\ UNCHANGED payment
    ELSE /\ payment' = Append(payment, [id |-> NextId(payment),
                                        property_id |-> property_id.val,
                                        tenant_id |-> tenant_id.val,
                                        payment_date |-> payment_date.val])
         /\ resp' = Redirect(c, "add_payment", "POST", "payments",
                             "Payment recorded successfully!")

add_payment(c, m, form) ==
    /\ inflight[c] = Idle
    /\ IF ~IsAuthenticated(c) THEN Unauthorized(c, "add_payment", m)
       ELSE /\ IF m = "GET"
               THEN /\ resp' = Render(c, "add_payment", m, "add_payment.html", "",
                                      PropertiesOf(session[c]), NoStats)
                    /\ UNCHANGED payment
               ELSE PaymentInsert(c, form)
            /\ UNCHANGED <<owner, property, tenant, expense, maintenance_request,
                           session, inflight>>

expenses(c) ==
    /\ inflight[c] = Idle
    /\ IF ~IsAuthenticated(c) THEN Unauthorized(c, "expenses", "GET")
       ELSE /\ \E rows \in OrderByDesc(Range(JoinOwned(expense, session[c])),
                                       "expense_date") :
                    resp' = Render(c, "expenses", "GET", "expenses.html", "",
                                   rows, NoStats)
            /\ UNCHANGED <<store, session, inflight>>

-----------------------------------------------------------------------------
(* dashboard                                                               *)

RecentLimit == 5

RECURSIVE SumRent(_)
\* db.func.sum(Property.monthly_rent): <<>> (NULL) over no rows.
SumRent(rows) ==
    IF rows = <<>> THEN <<>>
    ELSE LET rest == SumRent(Tail(rows))
         IN << Head(rows).monthly_rent + (IF rest = <<>> THEN 0 ELSE rest[1]) >>

\* scalar() or 0
ScalarOrZero(scalar) == IF scalar = <<>> \/ scalar[1] = 0 THEN 0 ELSE scalar[1]

TotalProperties(uid) == Len(PropertiesOf(uid))

\* Mutant of ActiveTenants: the count without the join on the owner's properties.
ActiveTenants_AllOwners(uid) == Len(SelectSeq(tenant, LAMBDA t : t.is_active))

ActiveTenants(uid) == Len(SelectSeq(JoinOwned(tenant, uid), LAMBDA t : t.is_active))

MonthlyIncome(uid) == ScalarOrZero(SumRent(PropertiesOf(uid)))

\* Mutant of RecentPayments: limit(5) applied before order_by.
RecentPayments_LimitBeforeOrder(uid) ==
    OrderByDesc(Range(Limit(JoinOwned(payment, uid), RecentLimit)), "payment_date")

\* Every result the query of lines 208-210 may return.
RecentPayments(uid) ==
    { Limit(rows, RecentLimit) :
        rows \in OrderByDesc(Range(JoinOwned(payment, uid)), "payment_date") }

PendingMaintenance(uid) ==
    Len(SelectSeq(JoinOwned(maintenance_request, uid),
                  LAMBDA r : r.status # "completed"))

\* The template arguments of dashboard.  recent_payments is the set of the
\* row sequences the query may return, of which the page shows one.
DashboardStats(uid) ==
    [total_properties |-> TotalProperties(uid),
     active_tenants |-> ActiveTenants(uid),
     monthly_income |-> MonthlyIncome(uid),
     recent_payments |-> RecentPayments(uid),
     pending_maintenance |-> PendingMaintenance(uid)]

dashboard(c) ==
    /\ inflight[c] = Idle
    /\ IF ~IsAuthenticated(c) THEN Unauthorized(c, "dashboard", "GET")
       ELSE /\ resp' = Render(c, "dashboard", "GET", "dashboard.html", "",
                              <<>>, DashboardStats(session[c]))
            /\ UNCHANGED <<store, session, inflight>>

-----------------------------------------------------------------------------
(* reports, send_whatsapp_reminder                                         *)

reports(c) ==
    /\ inflight[c] = Idle
    /\ IF ~IsAuthenticated(c) THEN Unauthorized(c, "reports", "GET")
       ELSE /\ resp' = Render(c, "reports", "GET", "reports.html", "", <<>>, NoStats)
            /\ UNCHANGED <<store, session, inflight>>

\* request.json answers 415 itself when the body is not JSON.
send_whatsapp_reminder(c, is_json) ==
    /\ inflight[c] = Idle
    /\ IF ~IsAuthenticated(c) THEN Unauthorized(c, "send_whatsapp_reminder", "POST")
       ELSE /\ resp' = [client |-> c, route |-> "send_whatsapp_reminder",
                        method |-> "POST",
                        status |-> IF is_json THEN 200 ELSE 415,
                        body |-> IF is_json THEN "WhatsApp reminder sent"
                                 ELSE "Unsupported Media Type",
                        flash |-> "", rows |-> <<>>, stats |-> NoStats]
            /\ UNCHANGED <<store, session, inflight>>

-----------------------------------------------------------------------------
(* The application after db.create_all() on a fresh store.                 *)

Init ==
    /\ owner = <<>>
    /\ property = <<>>
    /\ tenant = <<>>
    /\ payment = <<>>
    /\ expense = <<>>
    /\ maintenance_request = <<>>
    /\ session = [c \in Clients |-> NoUser]
    /\ inflight = [c \in Clients |-> Idle]
    /\ resp = NoResp

Methods == {"GET", "POST"}

-----------------------------------------------------------------------------
(* Spec: requests handled one at a time, from one browser that logs in and *)
(* out as either of two owners.                                            *)

AccountForms ==
    { [username |-> "u1", email |-> "e1", password |-> "pw1"],
      [username |-> "u2", email |-> "e2", password |-> "pw1"] }

CredentialForms ==
    { [email |-> "e1", password |-> "pw1"],
      [email |-> "e2", password |-> "pw1"] }

PropertyForms ==
    { [name |-> "Flat", bedrooms |-> "2", bathrooms |-> "1", area_sqft |-> "1.5",
       monthly_rent |-> "1"] }

TenantForms ==
    { [name |-> "Ann", phone |-> "555", lease_start |-> "2024-01-01",
       lease_end |-> "2024-01-02", security_deposit |-> None, property_id |-> p] :
        p \in {"1", "2", "3"} }

PaymentForms ==
    { [property_id |-> p, tenant_id |-> "1", amount |-> "1.5",
       payment_date |-> "2024-01-01"] :
        p \in {"1", "2", "3"} }

Next ==
    \E c \in {"c1"} :
        \/ \E f \in AccountForms : register(c, "POST", f, 1)
        \/ \E f \in CredentialForms : login(c, "POST", f)
        \/ logout(c)
        \/ dashboard(c)
        \/ properties(c)
        \/ \E m \in Methods, f \in PropertyForms :
              Len(property) < MaxProperties /\ add_property(c, m, f)
        \/ tenants(c)
        \/ \E m \in Methods, f \in TenantForms :
              Len(tenant) < MaxTenants /\ add_tenant(c, m, f)
        \/ payments(c)
        \/ \E m \in Methods, f \in PaymentForms :
              Len(payment) < MaxPayments /\ add_payment(c, m, f)
        \/ expenses(c)
        \/ reports(c)
        \/ \E j \in BOOLEAN : send_whatsapp_reminder(c, j)

Spec == Init /\ [][Next]_vars

-----------------------------------------------------------------------------
(* SpecAuth: two browsers; register requests interleave between their      *)
(* lookup and their commit.                                                *)

Salts == {1, 2}

RegisterForms ==
    { [username |-> "u1", email |-> "e1", password |-> "pw1"],
      [username |-> "u2", email |-> "e1", password |-> "pw2"],
      [username |-> "u2", email |-> "e2", password |-> "pw1"] }

LoginForms ==
    { [email |-> e, password |-> p] : e \in {"e1", "e2", "e3"}, p \in {"pw1", "pw2"} }

NextAuth ==
    \E c \in Clients :
        \/ \E f \in RegisterForms : register_lookup(c, f)
        \/ \E salt \in Salts : register_commit(c, salt)
        \/ \E m \in Methods, f \in LoginForms : login(c, m, f)
        \/ logout(c)
        \/ dashboard(c)

SpecAuth == Init /\ [][NextAuth]_vars

-----------------------------------------------------------------------------
(* SpecForms: the form-submitting routes on well-formed and malformed      *)
(* input, from one browser.                                                *)

BadAccountForms ==
    { [username |-> "u1", email |-> "e1", password |-> "pw1"],
      [username |-> "u1", email |-> "e2", password |-> "pw1"] }

BadCredentialForms ==
    { [email |-> "e1", password |-> "pw1"],
      [email |-> "e1", password |-> "pw2"] }

\* One well-formed form per route, and that form with one field changed.
GoodPropertyForm ==
    [name |-> "Flat", bedrooms |-> "2", bathrooms |-> "1", area_sqft |-> "1.5",
     monthly_rent |-> "1"]

BadPropertyForms ==
    {GoodPropertyForm}
    \cup { [GoodPropertyForm EXCEPT !.name = None] }
    \cup { [GoodPropertyForm EXCEPT !.bedrooms = v] : v \in {"abc", "1.5", None} }
    \cup { [GoodPropertyForm EXCEPT !.bathrooms = v] : v \in {"", None} }
    \cup { [GoodPropertyForm EXCEPT !.area_sqft = v] : v \in {"abc", None} }
    \cup { [GoodPropertyForm EXCEPT !.monthly_rent = v] : v \in {"abc", "", "2", None} }

GoodTenantForm ==
    [name |-> "Ann", phone |-> "555", lease_start |-> "2024-01-01",
     lease_end |-> "2024-01-02", security_deposit |-> None, property_id |-> "1"]

BadTenantForms ==
    {GoodTenantForm}
    \cup { [GoodTenantForm EXCEPT !.name = None] }
    \cup { [GoodTenantForm EXCEPT !.lease_start = v] : v \in {"01/01/2024", None} }
    \cup { [GoodTenantForm EXCEPT !.lease_end = v] : v \in {"01/02/2024", None} }
    \cup { [GoodTenantForm EXCEPT !.security_deposit = v] : v \in {"abc", "1.5"} }
    \cup { [GoodTenantForm EXCEPT !.property_id = v] : v \in {"abc", None} }

GoodPaymentForm ==
    [property_id |-> "1", tenant_id |-> "1", amount |-> "1.5",
     payment_date |-> "2024-01-01"]

BadPaymentForms ==
    {GoodPaymentForm}
    \cup { [GoodPaymentForm EXCEPT !.property_id = v] : v \in {"abc", None} }
    \cup { [GoodPaymentForm EXCEPT !.tenant_id = v] : v \in {"abc", None} }
    \cup { [GoodPaymentForm EXCEPT !.amount = v] : v \in {"abc", None} }
    \cup { [GoodPaymentForm EXCEPT !.payment_date = v] : v \in {"01/01/2024", None} }

NextForms ==
    \E c \in {"c1"}, m \in Methods :
        \/ \E f \in BadAccountForms : register(c, m, f, 1)
        \/ \E f \in BadCredentialForms : login(c, m, f)
        \/ logout(c)
        \/ \E f \in BadPropertyForms :
              Len(property) < MaxProperties /\ add_property(c, m, f)
        \/ \E f \in BadTenantForms :
              Len(tenant) < MaxTenants /\ add_tenant(c, m, f)
        \/ \E f \in BadPaymentForms :
              Len(payment) < MaxPayments /\ add_payment(c, m, f)

SpecForms == Init /\ [][NextForms]_vars

-----------------------------------------------------------------------------
(* SpecStats: the dashboard's counts and sums over stores of properties    *)
(* with different rents and of tenants.                                    *)

RentForms ==
    { [name |-> "Flat", bedrooms |-> "2", bathrooms |-> "1", area_sqft |-> "1.5",
       monthly_rent |-> r] : r \in {"1", "1.5"} }

NextStats ==
    \E c \in {"c1"} :
        \/ \E f \in AccountForms : register(c, "POST", f, 1)
        \/ \E f \in CredentialForms : login(c, "POST", f)
        \/ logout(c)
        \/ \E f \in RentForms :
              Len(property) < MaxStatsProperties /\ add_property(c, "POST", f)
        \/ \E f \in TenantForms :
              Len(tenant) < MaxStatsTenants /\ add_tenant(c, "POST", f)
        \/ dashboard(c)

SpecStats == Init /\ [][NextStats]_vars

-----------------------------------------------------------------------------
(* SpecDash: the dashboard's recent payments.  It starts from the store    *)
(* the application is in after owner 1 (u1) and owner 2 (u2) registered,   *)
(* each added one property, and browser c1 logged in as owner 1 and c2 as  *)
(* owner 2.                                                                *)

InitDash ==
    /\ owner = << [id |-> 1, username |-> "u1", email |-> "e1",
                   password_hash |-> GeneratePasswordHash("pw1", 1).val],
                  [id |-> 2, username |-> "u2", email |-> "e2",
                   password_hash |-> GeneratePasswordHash("pw1", 1).val] >>
    /\ property = << [id |-> 1, owner_id |-> 1, monthly_rent |-> 10],
                     [id |-> 2, owner_id |-> 2, monthly_rent |-> 10] >>
    /\ tenant = <<>>
    /\ payment = <<>>
    /\ expense = <<>>
    /\ maintenance_request = <<>>
    /\ session = [c \in Clients |-> IF c = "c1" THEN 1 ELSE 2]
    /\ inflight = [c \in Clients |-> Idle]
    /\ resp = Redirect("c2", "login", "POST", "dashboard", "Welcome back")

DatedPaymentForms ==
    { [property_id |-> p, tenant_id |-> "1", amount |-> "1.5", payment_date |-> d] :
        p \in {"1", "2"}, d \in DOMAIN DateLiteral }

NextDash ==
    \/ \E f \in DatedPaymentForms :
          Len(payment) < MaxDashPayments /\ add_payment("c1", "POST", f)
    \/ \E c \in Clients : dashboard(c)

SpecDash == InitDash /\ [][NextDash]_vars

-----------------------------------------------------------------------------
(* Properties.                                                             *)

OwnerIds == { owner[i].id : i \in DOMAIN owner }

\* The owners of the property rows with this id (none for an id of no row).
PropertyOwners(pid) ==
    { property[i].owner_id : i \in { j \in DOMAIN property : property[j].id = pid } }

Occurrences(rows, id) == Cardinality({ k \in DOMAIN rows : rows[k].id = id })

ListingRoutes == {"properties", "tenants", "payments", "expenses"}

GuardedRoutes ==
    {"logout", "dashboard", "properties", "add_property", "tenants", "add_tenant",
     "payments", "add_payment", "expenses", "reports", "send_whatsapp_reminder"}

RowPropertyOwners(route, row) ==
    IF route = "properties" THEN {row.owner_id} ELSE PropertyOwners(row.property_id)

\* C1: whatever requests came before, every row a listing (properties,
\* tenants, payments, expenses) returns to a browser logged in as owner A is
\* a row of a Property owned by A: none is a row of a Property of an owner
\* B # A.
C1_ListingsShowOnlyOwnRows ==
    (resp.route \in ListingRoutes /\ resp.status = 200) =>
        \A k \in DOMAIN resp.rows :
            \A b \in RowPropertyOwners(resp.route, resp.rows[k]) :
                b = session[resp.client]

\* C1's case: owner A lists tenants, is shown none, and the table holds a
\* tenant on a Property of another owner.
C1_Witness ==
    /\ resp.route = "tenants"
    /\ resp.status = 200
    /\ PropertiesOf(session[resp.client]) # <<>>
    /\ \E i \in DOMAIN tenant :
          \E b \in PropertyOwners(tenant[i].property_id) : b # session[resp.client]

\* C2: every Tenant add_tenant creates and every Payment add_payment creates
\* while the session owner is O has a property_id that is the id of a
\* Property owned by O, whatever property_id was submitted.
C2_CreatedRowsAreOnOwnProperty ==
    /\ (resp.route = "add_tenant" /\ resp.status = 302 /\ resp.body = "tenants") =>
          session[resp.client] \in PropertyOwners(tenant[Len(tenant)].property_id)
    /\ (resp.route = "add_payment" /\ resp.status = 302 /\ resp.body = "payments") =>
          session[resp.client] \in PropertyOwners(payment[Len(payment)].property_id)

\* C3: a request to a guarded route from a browser that is not logged in
\* (never was, or logged out) is answered by a redirect to login that carries
\* no rows and no statistics, and it changes neither the store nor a session.
C3_UnauthenticatedIsRedirected ==
    [][ (resp'.route \in GuardedRoutes /\ ~IsAuthenticated(resp'.client)) =>
            /\ resp'.status = 302
            /\ resp'.body = "login"
            /\ resp'.rows = <<>>
            /\ resp'.stats = NoStats
            /\ store' = store
            /\ session' = session ]_vars

\* C3's case: after a logout, with an owner's property in the store, a POST
\* to add_tenant was redirected to login.
C3_Witness ==
    /\ resp.route = "add_tenant"
    /\ resp.method = "POST"
    /\ resp.status = 302
    /\ resp.body = "login"
    /\ session[resp.client] = NoUser
    /\ property # <<>>

\* C8: a successful add_property by owner O appends one Property owned by O
\* and no request changes or removes a Property, so in every state the
\* properties listing of O holds each Property of O exactly once and the
\* listing of any other owner holds it not at all.
C8_CreatedPropertyListedOnce ==
    /\ [](\A i \in DOMAIN property : \A uid \in OwnerIds :
             Occurrences(PropertiesOf(uid), property[i].id)
                 = IF uid = property[i].owner_id THEN 1 ELSE 0)
    /\ []((resp.route = "properties" /\ resp.status = 200) =>
             \A i \in DOMAIN property :
                 Occurrences(resp.rows, property[i].id)
                     = IF session[resp.client] = property[i].owner_id THEN 1 ELSE 0)
    /\ [][ /\ \A i \in DOMAIN property :
                  i \in DOMAIN property' /\ property'[i] = property[i]
           /\ (resp'.route = "add_property" /\ resp'.status = 302
                    /\ resp'.body = "properties") =>
                  /\ Len(property') = Len(property) + 1
                  /\ property'[Len(property')].owner_id = session[resp'.client]
                  /\ session[resp'.client] \in OwnerIds ]_vars

\* C8's case: owner O, who added a property, lists properties while another
\* owner's property is in the store.
C8_Witness ==
    /\ resp.route = "properties"
    /\ resp.status = 200
    /\ resp.rows # <<>>
    /\ \E i \in DOMAIN property : property[i].owner_id # session[resp.client]

\* The Owner these credentials are the registered ones of: the stored hash
\* is the hash of this password under the stored salt.
CredentialOwners(form) ==
    { owner[i].id : i \in { j \in DOMAIN owner :
        /\ owner[j].email = form.email
        /\ owner[j].password_hash =
               [salt |-> owner[j].password_hash.salt,
                digest |-> Digest(owner[j].password_hash.salt, form.password)] } }

\* C4: under every interleaving of register requests no two Owners share an
\* email: a register request whose email is an Owner's when the handler
\* looks it up is answered "Email already registered" and adds no Owner, and
\* one whose email became an Owner's between its lookup and its commit fails
\* on the email's unique constraint and adds no Owner.
C4_DuplicateEmailRejected ==
    /\ [](\A i, j \in DOMAIN owner : owner[i].email = owner[j].email => i = j)
    /\ [][ \A c \in Clients, f \in RegisterForms :
             (register_lookup(c, f) /\ \E i \in DOMAIN owner : owner[i].email = f.email)
                 => /\ resp'.status = 302
                    /\ resp'.body = "register"
                    /\ resp'.flash = "Email already registered"
                    /\ owner' = owner
                    /\ inflight' = inflight ]_vars
    /\ [][ \A c \in Clients :
             (inflight'[c] = Idle /\ inflight[c] # Idle
                    /\ \E i \in DOMAIN owner : owner[i].email = inflight[c].email)
                 => /\ resp'.status = 500
                    /\ resp'.body = "IntegrityError"
                    /\ owner' = owner ]_vars

\* C4's case: two requests registering the email e1 both passed the lookup;
\* one committed and the other failed at its commit.
C4_Witness ==
    /\ resp.route = "register"
    /\ resp.body = "IntegrityError"
    /\ Len(owner) = 1
    /\ owner[1].email = "e1"
    /\ \A c \in Clients : inflight[c] = Idle

\* C5 as claimed: a login with an unknown email or a wrong password answers
\* "Invalid email or password" and leaves the session unauthenticated; a
\* login with an Owner's email and registration password logs that Owner
\* in, and the session's owner then changes only by a logout.
C5_LoginAsClaimed ==
    /\ [][ \A c \in Clients, f \in LoginForms :
             login(c, "POST", f) =>
                 IF CredentialOwners(f) # {}
                 THEN session'[c] \in CredentialOwners(f)
                 ELSE /\ resp'.flash = "Invalid email or password"
                      /\ session'[c] = NoUser ]_vars
    /\ [][ \A c \in Clients :
             (session[c] # NoUser /\ session'[c] # session[c]) => logout(c) ]_vars

\* C5, amended: a login with an unknown email or a wrong password answers
\* "Invalid email or password" and leaves every session as it was; a login
\* with an Owner's email and registration password logs that Owner in; a
\* session's owner changes only by its logout or by a later successful login
\* in it, and until then it names a stored Owner, whom a guarded route
\* (dashboard) serves.
C5_LoginAmended ==
    /\ [][ \A c \in Clients, f \in LoginForms :
             login(c, "POST", f) =>
                 IF CredentialOwners(f) # {}
                 THEN /\ session'[c] \in CredentialOwners(f)
                      /\ \A d \in Clients \ {c} : session'[d] = session[d]
                      /\ resp'.status = 302
                      /\ resp'.body = "dashboard"
                 ELSE /\ resp'.flash = "Invalid email or password"
                      /\ session' = session ]_vars
    /\ [][ \A c \in Clients :
             session'[c] # session[c] =>
                 \/ logout(c)
                 \/ \E f \in LoginForms :
                        login(c, "POST", f) /\ CredentialOwners(f) # {} ]_vars
    /\ [](\A c \in Clients :
             session[c] # NoUser =>
                 /\ Len(load_user(session[c])) = 1
                 /\ load_user(session[c])[1].id = session[c])
    /\ [][ \A c \in Clients :
             (dashboard(c) /\ session[c] # NoUser) => resp'.status = 200 ]_vars

\* C5's case: a login failed in a session that an earlier login had
\* authenticated, and the session still names its owner.
C5_Witness ==
    /\ resp.route = "login"
    /\ resp.flash = "Invalid email or password"
    /\ session[resp.client] # NoUser

Numerals == {"0", "1", "2", "3", "1.5"}

NumericFields == {"bedrooms", "bathrooms", "area_sqft", "monthly_rent"}

\* C6: a POST to add_property by a logged-in owner with a monthly_rent,
\* bedrooms, bathrooms or area_sqft value that is no number fails (with the
\* ValueError of the conversion) and leaves the store as it was.
C6_BadNumberCreatesNoProperty ==
    [][ \A c \in Clients, f \in BadPropertyForms :
          (/\ \E k \in NumericFields : f[k] # None /\ f[k] \notin Numerals
           /\ IsAuthenticated(c)
           /\ add_property(c, "POST", f))
              => /\ resp'.status = 500
                 /\ resp'.body = "ValueError"
                 /\ store' = store ]_vars

\* C6's case: with a property in the store, an add_property POST of a
\* logged-in owner ended in the ValueError.
C6_Witness ==
    /\ resp.route = "add_property"
    /\ resp.method = "POST"
    /\ resp.status = 500
    /\ resp.body = "ValueError"
    /\ property # <<>>

FormRoutes == {"register", "login", "add_property", "add_tenant", "add_payment"}

\* C7: no request to a form-submitting route (register, login, add_property,
\* add_tenant, add_payment) ends in an unhandled failure.
C7_FormErrorsAreFlashed ==
    resp.route \in FormRoutes => resp.status # 500

RECURSIVE SumOver(_, _)
SumOver(indices, rows) ==
    IF indices = {} THEN 0
    ELSE LET i == CHOOSE k \in indices : TRUE
         IN rows[i].monthly_rent + SumOver(indices \ {i}, rows)

OwnedProperties(uid) == { i \in DOMAIN property : property[i].owner_id = uid }

\* The rows of a table on a Property owned by uid.
OwnedRows(table, uid) ==
    { i \in DOMAIN table : uid \in PropertyOwners(table[i].property_id) }

\* C9: in every store state and for every owner O, every result of the
\* dashboard's recent_payments query has at most 5 rows, each a Payment on
\* a Property owned by O and none twice, in descending payment_date order,
\* and no Payment of O left out is later than one included.
C9_RecentPayments ==
    \A uid \in OwnerIds : \A recent \in DashboardStats(uid).recent_payments :
        /\ Len(recent) <= 5
        /\ \A k \in DOMAIN recent :
              /\ \E i \in OwnedRows(payment, uid) : payment[i] = recent[k]
              /\ Occurrences(recent, recent[k].id) = 1
        /\ \A k \in 1..(Len(recent) - 1) :
              recent[k].payment_date >= recent[k + 1].payment_date
        /\ \A i \in OwnedRows(payment, uid) :
              Occurrences(recent, payment[i].id) = 0 =>
                  \A k \in DOMAIN recent :
                      payment[i].payment_date <= recent[k].payment_date

\* C9's case: the dashboard was shown to an owner with more than 5 payments,
\* of both dates, and every result holds 5 of them.
C9_Witness ==
    /\ resp.route = "dashboard"
    /\ resp.status = 200
    /\ Cardinality(OwnedRows(payment, session[resp.client])) > 5
    /\ \E i, j \in OwnedRows(payment, session[resp.client]) :
          payment[i].payment_date # payment[j].payment_date
    /\ \A recent \in resp.stats.recent_payments : Len(recent) = 5

StatsAsClaimed(stats, uid) ==
    /\ stats.total_properties = Cardinality(OwnedProperties(uid))
    /\ stats.active_tenants =
           Cardinality({ i \in OwnedRows(tenant, uid) : tenant[i].is_active })
    /\ stats.monthly_income = SumOver(OwnedProperties(uid), property)
    /\ stats.pending_maintenance =
           Cardinality({ i \in OwnedRows(maintenance_request, uid) :
                           maintenance_request[i].status # "completed" })
    /\ OwnedProperties(uid) = {} =>
           stats.total_properties = 0 /\ stats.monthly_income = 0

\* C10: in every store state the dashboard of every owner O reports the
\* number of O's Properties, the number of active Tenants on them, the sum
\* of their monthly_rent and the number of their MaintenanceRequests not
\* completed; with no Property the count and the sum are 0.
C10_DashboardStats ==
    /\ \A uid \in OwnerIds : StatsAsClaimed(DashboardStats(uid), uid)
    /\ (resp.route = "dashboard" /\ resp.status = 200) =>
           StatsAsClaimed(resp.stats, session[resp.client])

\* C10's case: the dashboard was shown to an owner of two properties with a
\* tenant, while the other owner has a tenant too.
C10_Witness ==
    /\ resp.route = "dashboard"
    /\ resp.status = 200
    /\ resp.stats.total_properties = 2
    /\ resp.stats.monthly_income = 25
    /\ resp.stats.active_tenants = 1
    /\ Len(tenant) = 2

\* C10's other case: the dashboard of an owner with no property.
C10_WitnessEmpty ==
    /\ resp.route = "dashboard"
    /\ resp.status = 200
    /\ resp.stats.total_properties = 0
    /\ resp.stats.monthly_income = 0
    /\ property # <<>>

====
